---- MODULE Spec2Model ----
(***************************************************************************)
(* The "Physics" module of Interstellar Armada (src/js/armada/graphics.js, *)
(* lines 1885-2563): Force, Torque and PhysicalObject.                     *)
(*                                                                         *)
(* Representation.  The program computes with floating point numbers; the  *)
(* model computes the same quantities exactly, in fixed point:             *)
(*   time          1 tick  = 1/TicksPerMs ms                               *)
(*   acceleration  1 unit  = 1/AccScale m/s^2 (or rad/s^2)                 *)
(*   velocity      1 unit  = 1 acceleration unit exerted for 1 tick        *)
(*   position      1 unit  = 1/(2*TicksPerSecond) velocity units * 1 s     *)
(*   angular vel.  1 unit  = angle of 1 acc. unit over 1 tick / 200        *)
(*   orientation   1 unit  = angle of 1 acc. unit over (1/2)*(1 tick)^2    *)
(* A translation matrix is represented by its translation vector (the      *)
(* product of two translations is the sum of the vectors), a rotation      *)
(* matrix by its signed angle about the Z axis (all axes of the model are  *)
(* multiples of Z, so the product of two rotations is the sum of the       *)
(* angles), a scaling matrix by its uniform factor num/den.                *)
(***************************************************************************)
EXTENDS Integers, Sequences, FiniteSets, TLC

\* ------------------------------------------------------------------------
\* Units
TicksPerMs == 20
TicksPerSecond == 1000 * TicksPerMs
AccScale == 2
\* 1 m/s in velocity units
OneMps == AccScale * TicksPerSecond

\* ------------------------------------------------------------------------
\* Vec / Mat (matrices.js)
Abs(x) == IF x < 0 THEN -x ELSE x
MinAsMax(a, b) == IF a < b THEN b ELSE a

Min(a, b) == IF a <= b THEN a ELSE b

ISqrt(n) == CHOOSE r \in 0..n : r * r <= n /\ (r + 1) * (r + 1) > n

length3(v) == ISqrt(v[1] * v[1] + v[2] * v[2] + v[3] * v[3])

\* Vec.normal3: the vector divided by its length
normal3(v) ==
    <<v[1] \div length3(v), v[2] \div length3(v), v[3] \div length3(v)>>

add3(a, b) == <<a[1] + b[1], a[2] + b[2], a[3] + b[3]>>

scaled3(v, k) == <<v[1] * k, v[2] * k, v[3] * k>>

Zero3 == <<0, 0, 0>>

\* Mat.straightened on one element: snaps to 0, 1 or -1 an element closer
\* to it than epsilon; one is the value 1 and eps the value epsilon in the
\* element's unit
straightenedElement(x, one, eps) ==
    IF Abs(x) < eps THEN 0
    ELSE IF Abs(one - x) < eps THEN one
    ELSE IF Abs(-one - x) < eps THEN -one
    ELSE x

\* ------------------------------------------------------------------------
\* Force
\* Force(id, strength, direction, duration)
Force(id, strength, direction, duration) ==
    [id |-> id, strength |-> strength, direction |-> normal3(direction),
     duration |-> duration]

ForceRenewDurationKept(f, strength, direction, duration) ==
    [f EXCEPT !.strength = strength, !.direction = normal3(direction)]

\* Force.prototype.renew
ForceRenew(f, strength, direction, duration) ==
    [f EXCEPT !.strength = strength, !.direction = normal3(direction),
              !.duration = duration]

StillExertedInclusive(duration) == 10 * duration >= TicksPerMs

\* this._duration > 0.1
StillExerted(duration) == 10 * duration > TicksPerMs

ExertionDurationWholeStep(duration, dt) ==
    IF StillExerted(duration) THEN dt ELSE 0

\* Force.prototype.getExertionDuration, Torque.prototype.getExertionDuration:
\* the returned duration
ExertionDuration(duration, dt) ==
    IF StillExerted(duration) THEN Min(duration, dt) ELSE 0

RemainingAlwaysDecreased(duration, dt) == duration - dt

\* the duration stored after the call
RemainingDuration(duration, dt) ==
    IF StillExerted(duration) THEN duration - dt ELSE duration

getAccelerationVectorMassless(f, mass) ==
    scaled3(f.direction, f.strength * AccScale)

\* Force.prototype.getAccelerationVector, in acceleration units
getAccelerationVector(f, mass) ==
    scaled3(f.direction, f.strength * (AccScale \div mass))

\* ------------------------------------------------------------------------
\* Torque
\* Torque(id, strength, axis, duration)
Torque(id, strength, axis, duration) ==
    [id |-> id, strength |-> strength, axis |-> normal3(axis),
     duration |-> duration]

\* Torque.prototype.renew: the axis is stored as passed
TorqueRenew(q, strength, axis, duration) ==
    [q EXCEPT !.strength = strength, !.axis = axis, !.duration = duration]

\* Mat.rotation4(axis, angle) for an axis of unit length along Z: the signed
\* angle about Z. The rotation that Mat.rotation4 builds from an axis of
\* another length is written down nowhere, so it has no value here, and no
\* step of the specifications below exerts a torque about such an axis.
rotation4(axis, angle) ==
    CASE axis = <<0, 0, 1>> -> angle
      [] axis = <<0, 0, -1>> -> -angle

getAngularAccelerationMatrixOverTimeMassless(q, mass, t) ==
    rotation4(q.axis, q.strength * AccScale * t)

\* Torque.prototype.getAngularAccelerationMatrixOverTime, as the angle
\* (strength / mass) * t with the time factor t given in the unit of the result
getAngularAccelerationMatrixOverTime(q, mass, t) ==
    rotation4(q.axis, q.strength * (AccScale \div mass) * t)

\* ------------------------------------------------------------------------
\* PhysicalObject: the state
VARIABLES
    mass,                   \* this._mass
    position,               \* this._positionMatrix (translation vector)
    orientation,            \* this._orientationMatrix (angle)
    scaling,                \* this._scalingMatrix (factor num/den)
    velocity,               \* this._velocityMatrix (translation vector)
    angularVelocity,        \* this._angularVelocityMatrix (angle per 5 ms)
    forces,                 \* this._forces
    torques,                \* this._torques
    rotationMatrixInverse,  \* this._rotationMatrixInverse: <<>> is null
    modelMatrixInverse,     \* this._modelMatrixInverse: <<>> is null
    bodies,                 \* this._bodies
    bodySize,               \* this._bodySize, as the square of twice the size
    call,                   \* the last call made on the object and its results
    simulated,              \* number of simulate(dt), dt > 0, calls made
    forceExertion,          \* for every force: the duration it was created or
                            \* last renewed with, and the sum of the exertion
                            \* durations returned since
    torqueExertion,         \* the same for every torque
    other                   \* a second PhysicalObject: its fields; an entry
                            \* of its _forces or _torques is an instance of
                            \* its own (index 0) or the instance that this
                            \* object holds at the index

vars == <<mass, position, orientation, scaling, velocity, angularVelocity,
          forces, torques, rotationMatrixInverse, modelMatrixInverse, bodies,
          bodySize, call, simulated, forceExertion, torqueExertion, other>>

\* ------------------------------------------------------------------------
\* Bounds and the inputs the callers draw from
MaxForces == 2
MaxTorques == 2
MaxSimulate == 2

Masses == {1, 2}
Ids == {"thrust", "brake"}
OneId == {"thrust"}
\* strength, direction (not normalized) and duration (in ticks: 0.15 ms, 5 ms,
\* 0.1 ms, 0.05 ms) as the callers pass them
ForceInputs ==
    {[strength |-> 1, direction |-> <<2, 0, 0>>, duration |-> 3],
     [strength |-> 4, direction |-> <<0, -1, 0>>, duration |-> 5 * TicksPerMs],
     [strength |-> 4, direction |-> <<2, 0, 0>>, duration |-> 2],
     [strength |-> 1, direction |-> <<0, -1, 0>>, duration |-> 1]}
TorqueInputs ==
    {[strength |-> 4, direction |-> <<0, 0, 2>>, duration |-> 5 * TicksPerMs],
     [strength |-> 1, direction |-> <<0, 0, -1>>, duration |-> 3],
     [strength |-> 1, direction |-> <<0, 0, -1>>, duration |-> 2]}
\* those of ForceInputs an object in linear motion is driven with
LinearInputs == {in \in ForceInputs : in.duration > 1}
\* the inputs of a caller that passes axes of unit length
UnitAxes(inputs) ==
    {[in EXCEPT !.direction = normal3(in.direction)] : in \in inputs}
\* those of the inputs that differ in both strength and duration
Longer(inputs) == {in \in inputs : in.duration > 2}
\* those of the inputs that last for more than one step
Lasting(inputs) == {in \in inputs : in.duration > 3}
\* dt in ticks: -1 ms, 0, 3 ms, 8 ms
Dts == {-TicksPerMs, 0, 3 * TicksPerMs, 8 * TicksPerMs}
\* with 2 ms, which is too short for one application of the angular velocity,
\* and with multiples of 5 ms: 5 ms, 10 ms and 1000 ms
TurnDts ==
    Dts \cup {2 * TicksPerMs, 5 * TicksPerMs, 10 * TicksPerMs, TicksPerSecond}
\* the elapsed times passed to getExertionDuration directly
ElapsedDts == {0, 2 * TicksPerMs, 3 * TicksPerMs, 8 * TicksPerMs}
PositionMatrices == {Zero3, <<100, 0, -100>>}
OrientationMatrices == {0, 1000}
VelocityMatrices == {Zero3, <<6, 0, 0>>}
ScalingMatrices == {[num |-> 2, den |-> 1]}
\* initial velocities of a coasting object: 0.00015 m/s along X, and one with
\* components below 0.0001 m/s
CoastVelocityMatrices == {<<6, 0, 0>>, <<3, 0, -2>>}
\* dt in ticks: 3 ms, 1000 ms
CoastDts == {3 * TicksPerMs, TicksPerSecond}
PointVectors == {<<100, 0, -100>>, <<0, 7, 0>>}

\* ------------------------------------------------------------------------
\* Matrices of the object
inverseOfTranslation4(p) == <<-p[1], -p[2], -p[3]>>

inverseOfRotation4(r) == -r

inverseOfScaling4(s) == [num |-> s.den, den |-> s.num]

\* Mat.mul4(Mat.mul4(t, r), s) of a translation, a rotation and a scaling
mul4TRS(t, r, s) == [t |-> t, r |-> r, s |-> s]

\* Mat.straightened(this._velocityMatrix, 0.0001)
straightenedVelocity(v) ==
    LET eps == OneMps \div 10000
    IN  <<straightenedElement(v[1], OneMps, eps),
          straightenedElement(v[2], OneMps, eps),
          straightenedElement(v[3], OneMps, eps)>>

\* 1 rad in angular velocity units
OneRadPer5Ms == 200 * OneMps

\* Mat.straightened(this._angularVelocityMatrix, 0.00002): a rotation whose
\* sine is below epsilon becomes the identity. The element compared is
\* sin(w), which for w # 0 lies below w by less than one unit of the model,
\* so it is below epsilon for every angle up to and including epsilon.
straightenedAngularVelocity(w) ==
    IF Abs(w) <= (2 * OneRadPer5Ms) \div 100000 THEN 0 ELSE w

\* Mat.correctedOrthogonal4: the model's rotations are orthogonal
correctedOrthogonal4(r) == r

\* ------------------------------------------------------------------------
\* Points and their transformation
\* An angle is a number of quarter turns plus a small angle in orientation
\* units: QuarterTurn stands for pi/2 and OneRad is 1 rad in these units.
QuarterTurn == 268435456
OneRad == 2 * AccScale * TicksPerSecond * TicksPerSecond

Quarters(r) == (r + QuarterTurn \div 2) \div QuarterTurn

SmallAngle(r) == r - Quarters(r) * QuarterTurn

\* v times the rotation matrix of q quarter turns about Z
rotatedByQuarters(v, q) ==
    CASE q % 4 = 0 -> v
      [] q % 4 = 1 -> <<-v[2], v[1], v[3]>>
      [] q % 4 = 2 -> <<-v[1], -v[2], v[3]>>
      [] q % 4 = 3 -> <<v[2], -v[1], v[3]>>

\* x * a / OneRad, a a small angle, to the resolution of the model
timesSmallAngle(x, a) == (x * (a \div 4096)) \div (OneRad \div 4096)

\* v times the rotation matrix of the angle r about Z: exact in the quarter
\* turns, to first order in the small angle
rotated(v, r) ==
    LET w == rotatedByQuarters(v, Quarters(r))
        a == SmallAngle(r)
    IN  <<w[1] - timesSmallAngle(w[2], a), w[2] + timesSmallAngle(w[1], a),
          w[3]>>

\* a point is v / den: the vector made 4D, positionVector.push(1)
Point(v) == [v |-> v, den |-> 1]

\* Vec.mulVec4Mat4 of a point and the product of a translation, a rotation
\* and a scaling
mulVec4Mat4(p, m) ==
    LET moved == add3(p.v, scaled3(m.t, p.den))
    IN  [v |-> scaled3(rotated(moved, m.r), m.s.num), den |-> p.den * m.s.den]

IdentityScaling == [num |-> 1, den |-> 1]

\* ------------------------------------------------------------------------
\* Body
\* Body(positionMatrix, orientationMatrix, dimensions)
Body(positionMatrix, orientationMatrix, dimensions) ==
    [position |-> positionMatrix, orientation |-> orientationMatrix,
     width |-> dimensions[1], height |-> dimensions[2],
     depth |-> dimensions[3], modelMatrixInverse |-> <<>>]

\* Body.prototype.getModelMatrixInverse: the value returned and cached
BodyModelMatrixInverse(b) ==
    IF b.modelMatrixInverse # <<>> THEN b.modelMatrixInverse[1]
    ELSE mul4TRS(inverseOfTranslation4(b.position),
                 inverseOfRotation4(b.orientation), IdentityScaling)

BodyCheckHitOpen(b, relativePositionVector) ==
    LET p == mulVec4Mat4(relativePositionVector, BodyModelMatrixInverse(b))
    IN  /\ 2 * p.v[1] > -b.width * p.den /\ 2 * p.v[1] < b.width * p.den
        /\ 2 * p.v[2] > -b.height * p.den /\ 2 * p.v[2] < b.height * p.den
        /\ 2 * p.v[3] > -b.depth * p.den /\ 2 * p.v[3] < b.depth * p.den

\* Body.prototype.checkHit: the value returned
BodyCheckHit(b, relativePositionVector) ==
    LET p == mulVec4Mat4(relativePositionVector, BodyModelMatrixInverse(b))
    IN  /\ 2 * p.v[1] >= -b.width * p.den /\ 2 * p.v[1] <= b.width * p.den
        /\ 2 * p.v[2] >= -b.height * p.den /\ 2 * p.v[2] <= b.height * p.den
        /\ 2 * p.v[3] >= -b.depth * p.den /\ 2 * p.v[3] <= b.depth * p.den

\* the square of twice Vec.length3(Vec.add3(bodyPos, corner)), corner being
\* half of twiceCorner
TwiceLengthSquared(bodyPos, twiceCorner) ==
    LET c == add3(scaled3(bodyPos, 2), twiceCorner)
    IN  c[1] * c[1] + c[2] * c[2] + c[3] * c[3]

Max(a, b) == IF a >= b THEN a ELSE b

SetMax(S) == CHOOSE x \in S : \A y \in S : y <= x

calculateBodySizeOfCentres(i, bs, orient, size) ==
    SetMax({size} \cup {TwiceLengthSquared(bs[j].position, Zero3) :
                            j \in i..Len(bs)})

\* PhysicalObject.prototype._calculateBodySize: the loop from body i on, size
\* being the square of twice this._bodySize
RECURSIVE calculateBodySize(_, _, _, _)
calculateBodySize(i, bs, orient, size) ==
    IF i > Len(bs) THEN size
    ELSE LET d == rotated(<<bs[i].width, bs[i].height, bs[i].depth>>,
                          orient + bs[i].orientation)
             corners == {TwiceLengthSquared(bs[i].position,
                                            <<x * d[1], y * d[2], z * d[3]>>) :
                             x \in {1, -1}, y \in {1, -1}, z \in {1, -1}}
         IN  calculateBodySize(i + 1, bs, orient,
                               Max(size, SetMax(corners)))

\* ------------------------------------------------------------------------
\* PhysicalObject
\* the value the call record holds when a field does not apply
NoCall ==
    [op |-> "new", id |-> "", strength |-> 0, direction |-> Zero3,
     duration |-> 0, index |-> 0, dt |-> 0, ret |-> 0,
     exertedForces |-> <<>>, exertedTorques |-> <<>>, drifts |-> 0,
     point |-> Zero3, hit |-> FALSE, checked |-> 0]

\* PhysicalObject(mass, positionMatrix, orientationMatrix, scalingMatrix,
\* initialVelocityMatrix, bodies)
PhysicalObject(m, posMatrix, orientMatrix, scaleMatrix, velMatrix, bs) ==
    /\ mass = m
    /\ bodies = bs
    /\ bodySize = calculateBodySize(1, bs, orientMatrix, 0)
    /\ position = posMatrix
    /\ orientation = orientMatrix
    /\ scaling = scaleMatrix
    /\ velocity = velMatrix
    /\ angularVelocity = 0
    /\ forces = <<>>
    /\ torques = <<>>
    /\ rotationMatrixInverse = <<>>
    /\ modelMatrixInverse = <<>>
    /\ call = NoCall
    /\ simulated = 0
    /\ forceExertion = <<>>
    /\ torqueExertion = <<>>

\* a second PhysicalObject without bodies
OtherObject(m, posMatrix, orientMatrix, velMatrix) ==
    [mass |-> m, position |-> posMatrix, orientation |-> orientMatrix,
     velocity |-> velMatrix, angularVelocity |-> 0, forces |-> <<>>,
     torques |-> <<>>, simulated |-> 0]

\* no second object was constructed
NoObject == OtherObject(0, Zero3, 0, Zero3)

Init ==
    \E m \in Masses, v \in VelocityMatrices, s \in ScalingMatrices :
        PhysicalObject(m, Zero3, 0, s, v, <<>>) /\ other = NoObject

\* ------------------------------------------------------------------------
\* PhysicalObject: force and torque management
\* the history of a force or torque created or renewed with the duration
Started(duration) == [initial |-> duration, total |-> 0]

\* the history after getExertionDuration returned ret for entry i
Exerted(history, i, ret) == [history EXCEPT ![i].total = @ + ret]

\* the history after a step whose calls of getExertionDuration returned rets
ExertedAll(history, rets) ==
    [i \in 1..Len(history) |->
        [history[i] EXCEPT !.total = @ + rets[i]]]

AddForceInFront(ids, inputs) ==
    /\ Len(forces) < MaxForces
    /\ \E id \in ids, in \in inputs :
        /\ forces' = <<Force(id, in.strength, in.direction, in.duration)>>
                      \o forces
        /\ forceExertion' = <<Started(in.duration)>> \o forceExertion
        /\ call' = [NoCall EXCEPT !.op = "addForce", !.id = id,
                       !.strength = in.strength, !.direction = in.direction,
                       !.duration = in.duration]
    /\ UNCHANGED <<other, mass, bodies, bodySize,
                   position, orientation, scaling, velocity,
                   angularVelocity, torques, rotationMatrixInverse,
                   modelMatrixInverse, simulated, torqueExertion>>

\* PhysicalObject.prototype.addForce
AddForce(ids, inputs) ==
    /\ Len(forces) < MaxForces
    /\ \E id \in ids, in \in inputs :
        /\ forces' = Append(forces, Force(id, in.strength, in.direction,
                                          in.duration))
        /\ forceExertion' = Append(forceExertion, Started(in.duration))
        /\ call' = [NoCall EXCEPT !.op = "addForce", !.id = id,
                       !.strength = in.strength, !.direction = in.direction,
                       !.duration = in.duration]
    /\ UNCHANGED <<other, mass, bodies, bodySize,
                   position, orientation, scaling, velocity,
                   angularVelocity, torques, rotationMatrixInverse,
                   modelMatrixInverse, simulated,
                   torqueExertion>>

\* PhysicalObject.prototype.addTorque
AddTorque(ids, inputs) ==
    /\ Len(torques) < MaxTorques
    /\ \E id \in ids, in \in inputs :
        /\ torques' = Append(torques, Torque(id, in.strength, in.direction,
                                            in.duration))
        /\ torqueExertion' = Append(torqueExertion, Started(in.duration))
        /\ call' = [NoCall EXCEPT !.op = "addTorque", !.id = id,
                       !.strength = in.strength, !.direction = in.direction,
                       !.duration = in.duration]
    /\ UNCHANGED <<other, mass, bodies, bodySize,
                   position, orientation, scaling, velocity,
                   angularVelocity, forces, rotationMatrixInverse,
                   modelMatrixInverse, simulated,
                   forceExertion>>

\* the indices of the entries of list with the given id
Matching(list, id) == {i \in 1..Len(list) : list[i].id = id}

LastMatch(list, id) ==
    CHOOSE i \in Matching(list, id) : \A j \in Matching(list, id) : j <= i

\* the loop of addOrRenewForce / addOrRenewTorque: the first entry with the id
FirstMatch(list, id) ==
    CHOOSE i \in Matching(list, id) : \A j \in Matching(list, id) : i <= j

FoundNever(list, id) == FALSE

\* found, after the loop of addOrRenewForce / addOrRenewTorque
Found(list, id) == Matching(list, id) # {}

\* PhysicalObject.prototype.addOrRenewForce
AddOrRenewForce(ids, inputs) ==
    /\ \E id \in ids, in \in inputs :
        /\ IF Found(forces, id)
           THEN /\ forces' = [forces EXCEPT ![FirstMatch(forces, id)] =
                                  ForceRenew(@, in.strength, in.direction,
                                             in.duration)]
                /\ forceExertion' =
                       [forceExertion EXCEPT ![FirstMatch(forces, id)] =
                            Started(in.duration)]
           ELSE /\ Len(forces) < MaxForces
                /\ forces' = Append(forces, Force(id, in.strength,
                                                  in.direction, in.duration))
                /\ forceExertion' =
                       Append(forceExertion, Started(in.duration))
        /\ call' = [NoCall EXCEPT !.op = "addOrRenewForce", !.id = id,
                       !.strength = in.strength, !.direction = in.direction,
                       !.duration = in.duration]
    /\ UNCHANGED <<other, mass, bodies, bodySize,
                   position, orientation, scaling, velocity,
                   angularVelocity, torques, rotationMatrixInverse,
                   modelMatrixInverse, simulated,
                   torqueExertion>>

\* PhysicalObject.prototype.addOrRenewTorque
AddOrRenewTorque(ids, inputs) ==
    /\ \E id \in ids, in \in inputs :
        /\ IF Found(torques, id)
           THEN /\ torques' = [torques EXCEPT ![FirstMatch(torques, id)] =
                                   TorqueRenew(@, in.strength, in.direction,
                                               in.duration)]
                /\ torqueExertion' =
                       [torqueExertion EXCEPT ![FirstMatch(torques, id)] =
                            Started(in.duration)]
           ELSE /\ Len(torques) < MaxTorques
                /\ torques' = Append(torques, Torque(id, in.strength,
                                                    in.direction, in.duration))
                /\ torqueExertion' =
                       Append(torqueExertion, Started(in.duration))
        /\ call' = [NoCall EXCEPT !.op = "addOrRenewTorque", !.id = id,
                       !.strength = in.strength, !.direction = in.direction,
                       !.duration = in.duration]
    /\ UNCHANGED <<other, mass, bodies, bodySize,
                   position, orientation, scaling, velocity,
                   angularVelocity, forces, rotationMatrixInverse,
                   modelMatrixInverse, simulated,
                   forceExertion>>

ForceGetExertionDurationAdding(dts) ==
    /\ \E i \in 1..Len(forces), dt \in dts :
        /\ forces' = [forces EXCEPT
                         ![i].duration = IF StillExerted(@) THEN @ + dt ELSE @]
        /\ forceExertion' =
               Exerted(forceExertion, i,
                       ExertionDuration(forces[i].duration, dt))
        /\ call' = [NoCall EXCEPT !.op = "Force.getExertionDuration",
                       !.index = i, !.dt = dt,
                       !.ret = ExertionDuration(forces[i].duration, dt)]
    /\ UNCHANGED <<other, mass, bodies, bodySize,
                   position, orientation, scaling, velocity,
                   angularVelocity, torques, rotationMatrixInverse,
                   modelMatrixInverse, simulated,
                   torqueExertion>>

\* Force.prototype.getExertionDuration called on a force of the object
ForceGetExertionDuration(dts) ==
    /\ \E i \in 1..Len(forces), dt \in dts :
        /\ forces' = [forces EXCEPT
                         ![i].duration = RemainingDuration(@, dt)]
        /\ forceExertion' =
               Exerted(forceExertion, i,
                       ExertionDuration(forces[i].duration, dt))
        /\ call' = [NoCall EXCEPT !.op = "Force.getExertionDuration",
                       !.index = i, !.dt = dt,
                       !.ret = ExertionDuration(forces[i].duration, dt)]
    /\ UNCHANGED <<other, mass, bodies, bodySize,
                   position, orientation, scaling, velocity,
                   angularVelocity, torques, rotationMatrixInverse,
                   modelMatrixInverse, simulated,
                   torqueExertion>>

\* Torque.prototype.getExertionDuration called on a torque of the object
TorqueGetExertionDuration(dts) ==
    /\ \E i \in 1..Len(torques), dt \in dts :
        /\ torques' = [torques EXCEPT
                          ![i].duration = RemainingDuration(@, dt)]
        /\ torqueExertion' =
               Exerted(torqueExertion, i,
                       ExertionDuration(torques[i].duration, dt))
        /\ call' = [NoCall EXCEPT !.op = "Torque.getExertionDuration",
                       !.index = i, !.dt = dt,
                       !.ret = ExertionDuration(torques[i].duration, dt)]
    /\ UNCHANGED <<other, mass, bodies, bodySize,
                   position, orientation, scaling, velocity,
                   angularVelocity, forces, rotationMatrixInverse,
                   modelMatrixInverse, simulated,
                   forceExertion>>

\* ------------------------------------------------------------------------
\* PhysicalObject: setters and cached inverses
SetPositionMatrixCacheKept ==
    /\ \E value \in PositionMatrices :
        /\ position' = value
        /\ call' = [NoCall EXCEPT !.op = "setPositionMatrix"]
    /\ UNCHANGED <<other, mass, bodies, bodySize,
                   orientation, scaling, velocity, angularVelocity,
                   forces, torques, rotationMatrixInverse,
                   modelMatrixInverse, simulated,
                   forceExertion, torqueExertion>>

\* PhysicalObject.prototype.setPositionMatrix
SetPositionMatrix ==
    /\ \E value \in PositionMatrices :
        /\ position' = value
        /\ call' = [NoCall EXCEPT !.op = "setPositionMatrix"]
    /\ modelMatrixInverse' = <<>>
    /\ UNCHANGED <<other, mass, bodies, bodySize,
                   orientation, scaling, velocity, angularVelocity,
                   forces, torques, rotationMatrixInverse, simulated,
                   forceExertion, torqueExertion>>

SetOrientationMatrixResizing ==
    /\ \E value \in OrientationMatrices :
        /\ orientation' = value
        /\ bodySize' = calculateBodySize(1, bodies, value, 0)
        /\ call' = [NoCall EXCEPT !.op = "setOrientationMatrix"]
    /\ rotationMatrixInverse' = <<>>
    /\ modelMatrixInverse' = <<>>
    /\ UNCHANGED <<other, mass, bodies,
                   position, scaling, velocity, angularVelocity,
                   forces, torques, simulated,
                   forceExertion, torqueExertion>>

SetOrientationMatrixRotationKept ==
    /\ \E value \in OrientationMatrices :
        /\ orientation' = value
        /\ call' = [NoCall EXCEPT !.op = "setOrientationMatrix"]
    /\ modelMatrixInverse' = <<>>
    /\ UNCHANGED <<other, mass, bodies, bodySize,
                   position, scaling, velocity, angularVelocity,
                   forces, torques, simulated, rotationMatrixInverse,
                   forceExertion, torqueExertion>>

\* PhysicalObject.prototype.setOrientationMatrix
SetOrientationMatrix ==
    /\ \E value \in OrientationMatrices :
        /\ orientation' = value
        /\ call' = [NoCall EXCEPT !.op = "setOrientationMatrix"]
    /\ rotationMatrixInverse' = <<>>
    /\ modelMatrixInverse' = <<>>
    /\ UNCHANGED <<other, mass, bodies, bodySize,
                   position, scaling, velocity, angularVelocity,
                   forces, torques, simulated,
                   forceExertion, torqueExertion>>

\* this._rotationMatrixInverse || Mat.inverseOfRotation4(...)
RotationInverseOrCached(cache, orient) ==
    IF cache # <<>> THEN cache[1] ELSE inverseOfRotation4(orient)

\* this._modelMatrixInverse || Mat.mul4(Mat.mul4(...), ...)
ModelInverseOrCached(cache, rotCache, pos, orient, scale) ==
    IF cache # <<>> THEN cache[1]
    ELSE mul4TRS(inverseOfTranslation4(pos),
                 RotationInverseOrCached(rotCache, orient),
                 inverseOfScaling4(scale))

\* PhysicalObject.prototype.getRotationMatrixInverse
GetRotationMatrixInverse ==
    /\ rotationMatrixInverse' =
           <<RotationInverseOrCached(rotationMatrixInverse, orientation)>>
    /\ call' = [NoCall EXCEPT !.op = "getRotationMatrixInverse"]
    /\ UNCHANGED <<other, mass, bodies, bodySize,
                   position, orientation, scaling, velocity,
                   angularVelocity, forces, torques, modelMatrixInverse,
                   simulated,
                   forceExertion, torqueExertion>>

\* PhysicalObject.prototype.getModelMatrixInverse: computing the value calls
\* getRotationMatrixInverse, which fills its own cache
GetModelMatrixInverse ==
    /\ modelMatrixInverse' =
           <<ModelInverseOrCached(modelMatrixInverse, rotationMatrixInverse,
                                  position, orientation, scaling)>>
    /\ rotationMatrixInverse' =
           IF modelMatrixInverse # <<>> THEN rotationMatrixInverse
           ELSE <<RotationInverseOrCached(rotationMatrixInverse, orientation)>>
    /\ call' = [NoCall EXCEPT !.op = "getModelMatrixInverse"]
    /\ UNCHANGED <<other, mass, bodies, bodySize,
                   position, orientation, scaling, velocity,
                   angularVelocity, forces, torques, simulated,
                   forceExertion, torqueExertion>>

\* ------------------------------------------------------------------------
\* Body.prototype.checkHit, called on one of the bodies of the object with a
\* point of the space the body is placed in
BodyCheckHitCall(points) ==
    \E i \in 1..Len(bodies), relativePositionVector \in points :
        /\ bodies' = [bodies EXCEPT ![i].modelMatrixInverse =
                          <<BodyModelMatrixInverse(bodies[i])>>]
        /\ call' = [NoCall EXCEPT !.op = "Body.checkHit", !.index = i,
                       !.point = relativePositionVector,
                       !.hit = BodyCheckHit(bodies[i],
                                            Point(relativePositionVector))]
        /\ UNCHANGED <<other, mass, bodySize, position, orientation, scaling,
                       velocity, angularVelocity, forces, torques,
                       rotationMatrixInverse, modelMatrixInverse, simulated,
                   forceExertion, torqueExertion>>

\* ------------------------------------------------------------------------
\* PhysicalObject.prototype.checkHit
CloseEnoughOnOneAxis(p, size) ==
    \E k \in 1..3 : 4 * p.v[k] * p.v[k] <= size * p.den * p.den

\* the preliminary check: the point is closer than this._bodySize to the
\* origin along each of the three axes
CloseEnough(p, size) ==
    \A k \in 1..3 : 4 * p.v[k] * p.v[k] < size * p.den * p.den

CheckBodiesToTheLast(i, relativePos, st) ==
    IF i > Len(st.bodies) THEN st
    ELSE [result |-> BodyCheckHit(st.bodies[Len(st.bodies)], relativePos),
          bodies |-> [j \in 1..Len(st.bodies) |->
                         IF j < i THEN st.bodies[j]
                         ELSE [st.bodies[j] EXCEPT !.modelMatrixInverse =
                                   <<BodyModelMatrixInverse(st.bodies[j])>>]],
          checked |-> st.checked + Len(st.bodies) - i + 1]

\* for (i = 0; (result === false) && (i < this._bodies.length); i++), from
\* body i on; st holds the result, the bodies and the number of bodies checked
RECURSIVE CheckBodies(_, _, _)
CheckBodies(i, relativePos, st) ==
    IF st.result \/ i > Len(st.bodies) THEN st
    ELSE CheckBodies(i + 1, relativePos,
             [result |-> BodyCheckHit(st.bodies[i], relativePos),
              bodies |-> [st.bodies EXCEPT ![i].modelMatrixInverse =
                              <<BodyModelMatrixInverse(st.bodies[i])>>],
              checked |-> st.checked + 1])

CheckHit(points) ==
    \E positionVector \in points :
        LET inverse == ModelInverseOrCached(modelMatrixInverse,
                           rotationMatrixInverse, position, orientation,
                           scaling)
            relativePos == mulVec4Mat4(Point(positionVector), inverse)
            none == [result |-> FALSE, bodies |-> bodies, checked |-> 0]
            st == IF CloseEnough(relativePos, bodySize)
                  THEN CheckBodies(1, relativePos, none)
                  ELSE none
        IN  /\ modelMatrixInverse' = <<inverse>>
            /\ rotationMatrixInverse' =
                   IF modelMatrixInverse # <<>> THEN rotationMatrixInverse
                   ELSE <<RotationInverseOrCached(rotationMatrixInverse,
                                                  orientation)>>
            /\ bodies' = st.bodies
            /\ call' = [NoCall EXCEPT !.op = "checkHit",
                           !.point = positionVector, !.hit = st.result,
                           !.checked = st.checked]
            /\ UNCHANGED <<other, mass, bodySize, position, orientation,
                           scaling,
                           velocity, angularVelocity, forces, torques,
                           simulated,
                   forceExertion, torqueExertion>>

DriftHalved(v, dt) == scaled3(v, dt)

\* ------------------------------------------------------------------------
\* PhysicalObject.prototype.simulate
\* Vec.scaled3(Mat.translationVector3(this._velocityMatrix), dt / 1000), in
\* position units
Drift(v, dt) == scaled3(v, 2 * dt)

\* Vec.scaled3(a, 1 / 2 * t * t), t = exerted / 1000, in position units
HalfATSquared(a, exerted) == scaled3(a, exerted * exerted)

\* Vec.scaled3(a, t), in velocity units
AT(a, exerted) == scaled3(a, exerted)

\* the loop over this._forces, from index i on; st holds the position
\* matrix, the acceleration matrix, the forces and the exertion durations
\* the calls of getExertionDuration returned
RECURSIVE SimulateForces(_, _, _, _)
SimulateForces(i, dt, m, st) ==
    IF i > Len(st.forces) THEN st
    ELSE LET f == st.forces[i]
             exerted == ExertionDuration(f.duration, dt)
             a == getAccelerationVector(f, m)
             aged == [st.forces EXCEPT
                         ![i].duration = RemainingDuration(@, dt)]
         IN  SimulateForces(i + 1, dt, m,
                 [position |-> IF exerted > 0
                               THEN add3(st.position, HalfATSquared(a, exerted))
                               ELSE st.position,
                  acceleration |-> IF exerted > 0
                                   THEN add3(st.acceleration, AT(a, exerted))
                                   ELSE st.acceleration,
                  forces |-> aged,
                  exerted |-> Append(st.exerted, exerted)])

AngularStepPer10Ms(w) == w * (TicksPerSecond \div 200)

\* one application of the angular velocity matrix, in orientation units
AngularStep(w) == w * (TicksPerSecond \div 100)

DriftIterationsComplete(i, dt) == (dt - i) \div (5 * TicksPerMs)

\* for (i = 0; i + 2 < dt; i += 5): the number of iterations from i on, the
\* k-th of which finds i + 5 k
DriftIterations(i, dt) ==
    Cardinality({k \in 0..(Max(dt, 0) \div (5 * TicksPerMs)) :
                     i + 5 * TicksPerMs * k + 2 * TicksPerMs < dt})

\* the loop over this._torques, from index i on; st holds the orientation
\* matrix, the angular acceleration matrix, the torques and the exertion
\* durations the calls of getExertionDuration returned
RECURSIVE SimulateTorques(_, _, _, _)
SimulateTorques(i, dt, m, st) ==
    IF i > Len(st.torques) THEN st
    ELSE LET q == st.torques[i]
             exerted == ExertionDuration(q.duration, dt)
             aged == [st.torques EXCEPT
                         ![i].duration = RemainingDuration(@, dt)]
         IN  SimulateTorques(i + 1, dt, m,
                 [orientation |->
                      IF exerted > 0
                      THEN st.orientation +
                           getAngularAccelerationMatrixOverTime(
                               q, m, exerted * exerted)
                      ELSE st.orientation,
                  angularAcc |->
                      IF exerted > 0
                      THEN st.angularAcc +
                           getAngularAccelerationMatrixOverTime(q, m, exerted)
                      ELSE st.angularAcc,
                  torques |-> aged,
                  exerted |-> Append(st.exerted, exerted)])

SimulateLinearKickFirst(pos, vel, fs, m, dt) ==
    LET st == SimulateForces(1, dt, m,
                  [position |-> pos, acceleration |-> Zero3,
                   forces |-> fs, exerted |-> <<>>])
        kicked == add3(vel, st.acceleration)
    IN  [position |-> add3(st.position, Drift(kicked, dt)),
         velocity |-> kicked,
         forces |-> st.forces, exerted |-> st.exerted]

\* simulate(dt), dt > 0: the movement by the velocity of the previous step,
\* then the forces, then the update of the velocity matrix
SimulateLinear(pos, vel, fs, m, dt) ==
    LET drifted == add3(pos, Drift(vel, dt))
        st == SimulateForces(1, dt, m,
                  [position |-> drifted, acceleration |-> Zero3,
                   forces |-> fs, exerted |-> <<>>])
    IN  [position |-> st.position,
         velocity |-> add3(vel, st.acceleration),
         forces |-> st.forces, exerted |-> st.exerted]

SimulateAngularTorquesFirst(orient, angVel, ts, m, dt) ==
    LET n == DriftIterations(0, dt)
        st == SimulateTorques(1, dt, m,
                  [orientation |-> orient, angularAcc |-> 0,
                   torques |-> ts, exerted |-> <<>>])
        gained == angVel + st.angularAcc
    IN  [orientation |-> st.orientation + n * AngularStep(gained),
         angularVelocity |-> gained,
         torques |-> st.torques, exerted |-> st.exerted, drifts |-> n]

StillToRun(q) == q.duration > 0

SimulateAngularDroppingExpired(orient, angVel, ts, m, dt) ==
    LET n == DriftIterations(0, dt)
        turned == orient + n * AngularStep(angVel)
        st == SimulateTorques(1, dt, m,
                  [orientation |-> turned, angularAcc |-> 0,
                   torques |-> ts, exerted |-> <<>>])
    IN  [orientation |-> st.orientation,
         angularVelocity |-> angVel + st.angularAcc,
         torques |-> SelectSeq(st.torques, StillToRun),
         exerted |-> st.exerted, drifts |-> n]

\* simulate(dt), dt > 0: the rotation by the angular velocity, then the
\* torques, then the update of the angular velocity matrix
SimulateAngular(orient, angVel, ts, m, dt) ==
    LET n == DriftIterations(0, dt)
        turned == orient + n * AngularStep(angVel)
        st == SimulateTorques(1, dt, m,
                  [orientation |-> turned, angularAcc |-> 0,
                   torques |-> ts, exerted |-> <<>>])
    IN  [orientation |-> st.orientation,
         angularVelocity |-> angVel + st.angularAcc,
         torques |-> st.torques, exerted |-> st.exerted, drifts |-> n]

\* simulate(dt), dt > 0
SimulateStep(dt) ==
    LET lin == SimulateLinear(position, velocity, forces, mass, dt)
        ang == SimulateAngular(orientation, angularVelocity, torques, mass, dt)
    IN  /\ position' = lin.position
        /\ forces' = lin.forces
        /\ velocity' = straightenedVelocity(lin.velocity)
        /\ torques' = ang.torques
        /\ angularVelocity' = correctedOrthogonal4(
               straightenedAngularVelocity(ang.angularVelocity))
        \* _correctMatrices, through setOrientationMatrix
        /\ orientation' = correctedOrthogonal4(ang.orientation)
        \* setPositionMatrix and setOrientationMatrix
        /\ rotationMatrixInverse' = <<>>
        /\ modelMatrixInverse' = <<>>
        /\ call' = [NoCall EXCEPT !.op = "simulate", !.dt = dt,
                       !.exertedForces = lin.exerted,
                       !.exertedTorques = ang.exerted, !.drifts = ang.drifts]
        /\ simulated' = simulated + 1
        /\ forceExertion' = ExertedAll(forceExertion, lin.exerted)
        /\ torqueExertion' = ExertedAll(torqueExertion, ang.exerted)
        /\ UNCHANGED <<other, mass, bodies, bodySize, scaling>>

\* simulate(dt), dt <= 0
SimulateNothing(dt) ==
    /\ call' = [NoCall EXCEPT !.op = "simulate", !.dt = dt]
    /\ UNCHANGED <<other, mass, bodies, bodySize,
                   position, orientation, scaling, velocity,
                   angularVelocity, forces, torques, rotationMatrixInverse,
                   modelMatrixInverse, simulated,
                   forceExertion, torqueExertion>>

SimulateAlways(dt) == TRUE

\* if (dt > 0)
SimulateGuard(dt) == dt > 0

Simulate(dts) ==
    \E dt \in dts :
        IF SimulateGuard(dt)
        THEN simulated < MaxSimulate /\ SimulateStep(dt)
        ELSE SimulateNothing(dt)

\* ------------------------------------------------------------------------
\* Linear motion: an object driven through addOrRenewForce
Next ==
    \/ AddOrRenewForce(Ids, LinearInputs)
    \/ Simulate(Dts)

Spec == Init /\ [][Next]_vars

\* Exertion: one force and one torque, renewed and aged call by call
NextExertion ==
    \/ AddOrRenewForce(OneId, ForceInputs)
    \/ AddOrRenewTorque(OneId, TorqueInputs)
    \/ ForceGetExertionDuration(ElapsedDts)
    \/ TorqueGetExertionDuration(ElapsedDts)

SpecExertion == Init /\ [][NextExertion]_vars

\* Lists: forces and torques added with and without a look at the ids
NextLists ==
    \/ AddForce(Ids, Longer(ForceInputs))
    \/ AddTorque(Ids, Longer(TorqueInputs))
    \/ AddOrRenewForce(Ids, Longer(ForceInputs))
    \/ AddOrRenewTorque(Ids, Longer(TorqueInputs))

SpecLists == Init /\ [][NextLists]_vars

\* Turning: an object driven through addOrRenewTorque
NextTurn ==
    \/ AddOrRenewTorque(OneId, UnitAxes(TorqueInputs))
    \/ Simulate(TurnDts)

SpecTurn == Init /\ [][NextTurn]_vars

\* Caches: a moving, turning object that is set, read and simulated
InitCache ==
    \E m \in Masses, s \in ScalingMatrices :
        /\ PhysicalObject(m, Zero3, 0, s, <<6, 0, 0>>, <<>>)
        /\ other = NoObject

NextCache ==
    \/ AddOrRenewForce(OneId, Lasting(ForceInputs))
    \/ AddOrRenewTorque(OneId, UnitAxes(Lasting(TorqueInputs)))
    \/ SetPositionMatrix
    \/ SetOrientationMatrix
    \/ GetRotationMatrixInverse
    \/ GetModelMatrixInverse
    \/ CheckHit(PointVectors)
    \/ Simulate({-TicksPerMs, 0, 3 * TicksPerMs})

SpecCache == InitCache /\ [][NextCache]_vars

\* Coasting: an object built with a velocity, with forces that are exerted
\* and forces that are too short to be
InitCoast ==
    \E m \in Masses, v \in CoastVelocityMatrices, s \in ScalingMatrices :
        PhysicalObject(m, Zero3, 0, s, v, <<>>) /\ other = NoObject

NextCoast ==
    \/ AddOrRenewForce(OneId, ForceInputs)
    \/ Simulate(CoastDts)

SpecCoast == InitCoast /\ [][NextCoast]_vars

\* Hit tests: objects with bodies that are moved and probed. Lengths are in
\* tenths: a half-dimension of 1 is 10, a distance of 10 is 100.
\* one body of half-dimensions (1, 1, 1) at the local origin
CubeBodies == <<Body(Zero3, 0, <<20, 20, 20>>)>>

\* two bodies that overlap, the second a quarter turn about Z from the first
PairBodies ==
    <<Body(<<40, 0, 0>>, 0, <<40, 20, 20>>),
      Body(<<30, 10, 0>>, QuarterTurn, <<20, 60, 20>>)>>

\* one flat body whose corners are at the distance 25 from the local origin
PlateBodies == <<Body(Zero3, 0, <<30, 40, 0>>)>>

HitBodies == {CubeBodies, PairBodies, PlateBodies}
HitOrientationMatrices == {0, QuarterTurn}
HitScalingMatrices == {IdentityScaling, [num |-> 2, den |-> 1]}

\* points in the space of the bodies: inside one, both or none of the bodies,
\* on their faces and corners, and 10 away from the origin along every axis
LocalProbes ==
    {Zero3, <<40, 5, 0>>, <<10, 10, 0>>, <<40, -5, 0>>, <<62, 0, 0>>,
     <<70, 0, 0>>, <<60, 10, 10>>, <<25, 0, 0>>, <<24, 0, 0>>, <<15, 20, 0>>,
     <<100, 0, 0>>, <<-100, 0, 0>>, <<0, 100, 0>>, <<0, -100, 0>>,
     <<0, 0, 100>>, <<0, 0, -100>>}

\* the points passed to checkHit: the local probes as an object at the
\* current position sees them, whichever its orientation and scaling
WorldProbes ==
    {add3(position, scaled3(rotatedByQuarters(l, q), k)) :
         l \in LocalProbes, q \in {0, 1}, k \in {1, 2}}

InitHit ==
    \E bs \in HitBodies, o \in HitOrientationMatrices :
        \E s \in HitScalingMatrices :
            /\ PhysicalObject(1, Zero3, o, s, <<6, 0, 0>>, bs)
            /\ other = NoObject

NextHit ==
    \/ SetPositionMatrix
    \/ Simulate({-TicksPerMs, 3 * TicksPerMs})
    \/ CheckHit(WorldProbes)

SpecHit == InitHit /\ [][NextHit]_vars

\* Aging: one force and one torque that are renewed, aged call by call and
\* aged by steps
InitAging ==
    \E s \in ScalingMatrices :
        PhysicalObject(1, Zero3, 0, s, Zero3, <<>>) /\ other = NoObject

NextAging ==
    \/ AddOrRenewForce(OneId, Longer(ForceInputs))
    \/ AddOrRenewTorque(OneId, UnitAxes(Longer(TorqueInputs)))
    \/ ForceGetExertionDuration({2 * TicksPerMs})
    \/ TorqueGetExertionDuration({0})
    \/ Simulate({-TicksPerMs, 3 * TicksPerMs})

SpecAging == InitAging /\ [][NextAging]_vars

\* Spinning: an object driven through addOrRenewTorque with two ids
InitSpin ==
    \E m \in Masses, s \in ScalingMatrices :
        PhysicalObject(m, Zero3, 0, s, Zero3, <<>>) /\ other = NoObject

NextSpin ==
    \/ AddOrRenewTorque(Ids, UnitAxes(Longer(TorqueInputs)))
    \/ Simulate({2 * TicksPerMs, 3 * TicksPerMs, 8 * TicksPerMs})

SpecSpin == InitSpin /\ [][NextSpin]_vars

\* Keeping: forces and torques that are added, renewed and left to expire on
\* an object that is stepped and probed
NextKeep ==
    \/ AddForce(OneId, Longer(ForceInputs) \ Lasting(ForceInputs))
    \/ AddTorque(OneId, Longer(TorqueInputs) \ Lasting(TorqueInputs))
    \/ AddOrRenewForce(OneId, Lasting(ForceInputs))
    \/ AddOrRenewTorque(OneId, UnitAxes(Lasting(TorqueInputs)))
    \/ Simulate({3 * TicksPerMs})
    \/ CheckHit({Zero3})

SpecKeep == InitAging /\ [][NextKeep]_vars

\* Bodies: the bodies of an object at rest, probed one by one
InitBody ==
    \E bs \in HitBodies, o \in HitOrientationMatrices :
        /\ PhysicalObject(1, Zero3, o, IdentityScaling, Zero3, bs)
        /\ other = NoObject

NextBody == BodyCheckHitCall(LocalProbes)

SpecBody == InitBody /\ [][NextBody]_vars

\* Construction: an object with bodies on which every operation is called
InitFixed ==
    /\ PhysicalObject(2, Zero3, QuarterTurn, [num |-> 2, den |-> 1], Zero3,
                      PairBodies)
    /\ other = NoObject

NextFixed ==
    \/ AddForce(OneId, Longer(ForceInputs) \ Lasting(ForceInputs))
    \/ AddTorque(OneId, Longer(TorqueInputs) \ Lasting(TorqueInputs))
    \/ AddOrRenewForce(OneId, Longer(ForceInputs) \ Lasting(ForceInputs))
    \/ AddOrRenewTorque(OneId, Longer(TorqueInputs) \ Lasting(TorqueInputs))
    \/ SetPositionMatrix
    \/ SetOrientationMatrix
    \/ Simulate({3 * TicksPerMs})
    \/ CheckHit({position})

SpecFixed == InitFixed /\ [][NextFixed]_vars

\* Two objects that are given forces and torques through addForce and
\* addTorque, the second one also instances that the first one has, and that
\* are stepped in any order
\* the Force or Torque instance of an entry of the second object
Instance(e, list) == IF e.index > 0 THEN list[e.index] ELSE e.instance

Instances(entries, list) ==
    [i \in 1..Len(entries) |-> Instance(entries[i], list)]

\* the entries of the second object after its instances became the aged ones
OwnAged(entries, aged) ==
    [i \in 1..Len(entries) |->
        IF entries[i].index > 0 THEN entries[i]
        ELSE [index |-> 0, instance |-> aged[i]]]

\* the list of this object after the instances that the second object holds
\* as well became the aged ones
SharedAged(list, entries, aged) ==
    [j \in 1..Len(list) |->
        IF \E i \in 1..Len(entries) : entries[i].index = j
        THEN aged[CHOOSE i \in 1..Len(entries) : entries[i].index = j]
        ELSE list[j]]

\* the history of this object's instances after the second object's calls
\* of getExertionDuration returned rets
SharedExerted(history, entries, rets) ==
    [j \in 1..Len(history) |->
        IF \E i \in 1..Len(entries) : entries[i].index = j
        THEN [history[j] EXCEPT !.total =
                 @ + rets[CHOOSE i \in 1..Len(entries) : entries[i].index = j]]
        ELSE history[j]]

\* PhysicalObject.prototype.addForce on the second object, with a new Force
OtherAddForce(ids, inputs) ==
    /\ Len(other.forces) < MaxForces
    /\ \E id \in ids, in \in inputs :
        /\ other' = [other EXCEPT !.forces = Append(@,
                         [index |-> 0,
                          instance |-> Force(id, in.strength, in.direction,
                                             in.duration)])]
        /\ call' = [NoCall EXCEPT !.op = "other.addForce", !.id = id,
                       !.strength = in.strength, !.direction = in.direction,
                       !.duration = in.duration]
    /\ UNCHANGED <<mass, bodies, bodySize, position, orientation, scaling,
                   velocity, angularVelocity, forces, torques,
                   rotationMatrixInverse, modelMatrixInverse, simulated,
                   forceExertion, torqueExertion>>

\* PhysicalObject.prototype.addForce on the second object, with a Force that
\* was passed to addForce of this object
OtherAddSameForce ==
    /\ Len(other.forces) < MaxForces
    /\ \E j \in 1..Len(forces) :
        /\ \A i \in 1..Len(other.forces) : other.forces[i].index # j
        /\ other' = [other EXCEPT !.forces = Append(@, [index |-> j])]
        /\ call' = [NoCall EXCEPT !.op = "other.addForce",
                       !.id = forces[j].id, !.strength = forces[j].strength,
                       !.direction = forces[j].direction,
                       !.duration = forces[j].duration, !.index = j]
    /\ UNCHANGED <<mass, bodies, bodySize, position, orientation, scaling,
                   velocity, angularVelocity, forces, torques,
                   rotationMatrixInverse, modelMatrixInverse, simulated,
                   forceExertion, torqueExertion>>

\* PhysicalObject.prototype.addTorque on the second object, with a Torque
\* that was passed to addTorque of this object
OtherAddSameTorque ==
    /\ Len(other.torques) < MaxTorques
    /\ \E j \in 1..Len(torques) :
        /\ \A i \in 1..Len(other.torques) : other.torques[i].index # j
        /\ other' = [other EXCEPT !.torques = Append(@, [index |-> j])]
        /\ call' = [NoCall EXCEPT !.op = "other.addTorque",
                       !.id = torques[j].id, !.strength = torques[j].strength,
                       !.direction = torques[j].axis,
                       !.duration = torques[j].duration, !.index = j]
    /\ UNCHANGED <<mass, bodies, bodySize, position, orientation, scaling,
                   velocity, angularVelocity, forces, torques,
                   rotationMatrixInverse, modelMatrixInverse, simulated,
                   forceExertion, torqueExertion>>

\* PhysicalObject.prototype.simulate on the second object, dt > 0
OtherSimulate(dts) ==
    /\ other.simulated < MaxSimulate
    /\ \E dt \in dts :
        /\ SimulateGuard(dt)
        /\ LET lin == SimulateLinear(other.position, other.velocity,
                                     Instances(other.forces, forces),
                                     other.mass, dt)
               ang == SimulateAngular(other.orientation,
                                      other.angularVelocity,
                                      Instances(other.torques, torques),
                                      other.mass, dt)
           IN  /\ other' =
                     [other EXCEPT
                         !.position = lin.position,
                         !.velocity = straightenedVelocity(lin.velocity),
                         !.orientation = correctedOrthogonal4(ang.orientation),
                         !.angularVelocity = correctedOrthogonal4(
                             straightenedAngularVelocity(ang.angularVelocity)),
                         !.forces = OwnAged(@, lin.forces),
                         !.torques = OwnAged(@, ang.torques),
                         !.simulated = @ + 1]
               /\ forces' = SharedAged(forces, other.forces, lin.forces)
               /\ torques' = SharedAged(torques, other.torques, ang.torques)
               /\ forceExertion' =
                     SharedExerted(forceExertion, other.forces, lin.exerted)
               /\ torqueExertion' =
                     SharedExerted(torqueExertion, other.torques, ang.exerted)
               /\ call' = [NoCall EXCEPT !.op = "other.simulate", !.dt = dt,
                              !.exertedForces = lin.exerted,
                              !.exertedTorques = ang.exerted,
                              !.drifts = ang.drifts]
    /\ UNCHANGED <<mass, bodies, bodySize, position, orientation, scaling,
                   velocity, angularVelocity, rotationMatrixInverse,
                   modelMatrixInverse, simulated>>

InitPair ==
    /\ PhysicalObject(1, Zero3, 0, IdentityScaling, Zero3, <<>>)
    /\ other = OtherObject(2, Zero3, 0, Zero3)

NextPair ==
    \/ AddForce(OneId, Lasting(ForceInputs))
    \/ AddTorque(OneId, Lasting(TorqueInputs))
    \/ OtherAddForce(OneId, Lasting(ForceInputs))
    \/ OtherAddSameForce
    \/ OtherAddSameTorque
    \/ Simulate({3 * TicksPerMs})
    \/ OtherSimulate({3 * TicksPerMs})

SpecPair == InitPair /\ [][NextPair]_vars

\* ------------------------------------------------------------------------
\* Claims

\* 0.1 ms, in ticks
Epsilon == TicksPerMs \div 10

\* the last call was getExertionDuration(dt) on a force or a torque
IsExertionCall(c) ==
    c.op \in {"Force.getExertionDuration", "Torque.getExertionDuration"}

\* the force or torque the exertion call c was made on, in the given lists
Callee(c, fs, ts) ==
    IF c.op = "Force.getExertionDuration" THEN fs[c.index] ELSE ts[c.index]

\* C1, as claimed: getExertionDuration(dt) on a force or torque with stored
\* duration d returns 0 when d is below 0.1 ms and min(d, dt) otherwise, also
\* when d is exactly 0.1 ms.
C1_BelowEpsilonOnly ==
    [][IsExertionCall(call') =>
           LET d == Callee(call', forces, torques).duration
           IN  call'.ret = IF d < Epsilon THEN 0 ELSE Min(d, call'.dt)]_vars

\* C1, amended: getExertionDuration(dt) returns min(d, dt) when the stored
\* duration d is above 0.1 ms and 0 when d is 0.1 ms or less.
C1_ExertionDuration ==
    [][IsExertionCall(call') =>
           LET d == Callee(call', forces, torques).duration
           IN  call'.ret = IF d <= Epsilon THEN 0 ELSE Min(d, call'.dt)]_vars

\* a call with dt > 0 on a force of exactly 0.1 ms returned 0
C1_Witness ==
    /\ call.op = "Force.getExertionDuration"
    /\ call.dt > 0
    /\ call.ret = 0
    /\ forces[call.index].duration = Epsilon

\* C3, as claimed: every call getExertionDuration(dt) decrements the stored
\* duration by exactly dt, also when 0 is returned for an expired force.
C3_AlwaysDecremented ==
    [][IsExertionCall(call') =>
           Callee(call', forces', torques').duration =
               Callee(call', forces, torques).duration - call'.dt]_vars

\* C3, amended: getExertionDuration(dt) decrements the stored duration by dt
\* when the duration is above 0.1 ms, and leaves it as it is otherwise.
C3_DecrementedWhileExerted ==
    [][IsExertionCall(call') =>
           LET d == Callee(call', forces, torques).duration
           IN  Callee(call', forces', torques').duration =
                   IF d > Epsilon THEN d - call'.dt ELSE d]_vars

\* a call with dt > 0 on an expired torque returned 0; the torque was aged
\* below zero by an earlier call
C3_Witness ==
    /\ call.op = "Torque.getExertionDuration"
    /\ call.dt > 0
    /\ call.ret = 0
    /\ torques[call.index].duration < 0

\* the last call was simulate(dt) with dt > 0
IsStep(c) == c.op = "simulate" /\ c.dt > 0

\* C2: in simulate(dt), a force with stored duration D > 0.1 ms and dt >= D is
\* exerted for exactly D and its stored duration is <= 0 afterwards; a force
\* whose stored duration is <= 0 is exerted for 0 in every later step and its
\* duration stays <= 0 until addOrRenewForce renews it.
C2_ForceExpiry ==
    [][/\ IsStep(call') =>
            \A i \in 1..Len(forces) :
                LET d == forces[i].duration
                IN  /\ (d > Epsilon /\ call'.dt >= d) =>
                           /\ call'.exertedForces[i] = d
                           /\ forces'[i].duration <= 0
                    /\ d <= 0 => call'.exertedForces[i] = 0
       /\ call'.op # "addOrRenewForce" =>
            \A i \in 1..Len(forces) :
                forces[i].duration <= 0 => forces'[i].duration <= 0]_vars

\* the second step exerted for 0 a force that an earlier step had exerted past
\* its end
C2_Witness ==
    /\ IsStep(call)
    /\ simulated = 2
    /\ \E i \in 1..Len(forces) :
           call.exertedForces[i] = 0 /\ forces[i].duration < 0

\* C4: when forces are added only through addOrRenewForce, every id occurs at
\* most once in the force list in every reachable state, and after
\* addOrRenewForce(id, S, D, T) the one force with that id has strength S, the
\* unit vector along D as direction and duration T.
C4_RenewIdempotence ==
    /\ \A id \in Ids : Cardinality(Matching(forces, id)) <= 1
    /\ call.op = "addOrRenewForce" =>
           \E i \in 1..Len(forces) :
               /\ Matching(forces, call.id) = {i}
               /\ forces[i].strength = call.strength
               /\ forces[i].duration = call.duration
               /\ length3(forces[i].direction) = 1
               /\ scaled3(forces[i].direction, length3(call.direction)) =
                      call.direction

\* addOrRenewForce was called for the id of the first of two forces, after a
\* step that exerted the second past its end: the call renewed the first
C4_Witness ==
    /\ call.op = "addOrRenewForce"
    /\ Len(forces) = 2
    /\ call.id = forces[1].id
    /\ simulated > 0
    /\ forces[2].duration < 0

\* the entries of before other than the first with the id are those of after
OthersKept(before, after, id) ==
    /\ Len(after) = Len(before)
    /\ \A i \in 1..Len(before) :
           IF before[i].id = id /\ \A j \in 1..(i - 1) : before[j].id # id
           THEN after[i].id = id
           ELSE after[i] = before[i]

\* C5: when the force (torque) list holds two or more entries with the same
\* id, addOrRenewForce (addOrRenewTorque) with that id renews the entry with
\* the lowest index only: it gets the strength and the duration passed, every
\* other entry is as it was, and the length and the order of the list are
\* unchanged.
C5_FirstMatchRenewed ==
    [][/\ (call'.op = "addOrRenewForce"
             /\ Cardinality(Matching(forces, call'.id)) >= 2) =>
            /\ OthersKept(forces, forces', call'.id)
            /\ \E i \in Matching(forces, call'.id) :
                   /\ \A j \in Matching(forces, call'.id) : i <= j
                   /\ forces'[i].strength = call'.strength
                   /\ forces'[i].duration = call'.duration
       /\ (call'.op = "addOrRenewTorque"
             /\ Cardinality(Matching(torques, call'.id)) >= 2) =>
            /\ OthersKept(torques, torques', call'.id)
            /\ \E i \in Matching(torques, call'.id) :
                   /\ \A j \in Matching(torques, call'.id) : i <= j
                   /\ torques'[i].strength = call'.strength
                   /\ torques'[i].duration = call'.duration]_vars

\* addOrRenewTorque was called with the id that both torques of the list have
\* and renewed the first: the second has another strength and duration
C5_Witness ==
    /\ call.op = "addOrRenewTorque"
    /\ Len(torques) = 2
    /\ torques[1].id = call.id
    /\ torques[2].id = call.id
    /\ torques[1].strength = call.strength
    /\ torques[2].strength # call.strength
    /\ torques[2].duration # call.duration

\* C6: in every reachable state a cached inverse is the inverse of the
\* current matrices: the cached inverse rotation undoes the orientation, the
\* cached inverse model matrix undoes position, orientation and scaling; and
\* the value a getter or checkHit has just read is the cached one.
C6_CacheCoherence ==
    /\ rotationMatrixInverse # <<>> =>
           orientation + rotationMatrixInverse[1] = 0
    /\ modelMatrixInverse # <<>> =>
           LET inv == modelMatrixInverse[1]
           IN  /\ add3(position, inv.t) = Zero3
               /\ orientation + inv.r = 0
               /\ scaling.num * inv.s.num = scaling.den * inv.s.den
    /\ call.op = "getRotationMatrixInverse" => rotationMatrixInverse # <<>>
    /\ call.op \in {"getModelMatrixInverse", "checkHit"} =>
           modelMatrixInverse # <<>>

\* getModelMatrixInverse was called after a step that moved and turned the
\* object away from every matrix a setter passes
C6_Witness ==
    /\ call.op = "getModelMatrixInverse"
    /\ simulated > 0
    /\ position \notin PositionMatrices
    /\ orientation \notin OrientationMatrices

\* C7: simulate(dt) with dt <= 0 changes nothing: position, orientation,
\* velocity, angular velocity, the force and torque lists with the remaining
\* durations, and both cached inverses are as before.
C7_NoOpStep ==
    [][(call'.op = "simulate" /\ call'.dt <= 0) =>
           UNCHANGED <<mass, bodies, bodySize,
                       position, orientation, scaling, velocity,
                       angularVelocity, forces, torques,
                       rotationMatrixInverse, modelMatrixInverse>>]_vars

\* simulate was called with a negative dt on a moving object with a force, a
\* torque and both inverses cached
C7_Witness ==
    /\ call.op = "simulate"
    /\ call.dt < 0
    /\ velocity # Zero3
    /\ forces # <<>>
    /\ torques # <<>>
    /\ rotationMatrixInverse # <<>>
    /\ modelMatrixInverse # <<>>

\* strength / mass of a force or a torque, in acceleration units
Acceleration(f, m) == (f.strength * AccScale) \div m

\* the sum over the forces i..Len(fs) of direction * (strength / mass) * t^p,
\* t the time the force was exerted for and p 1 or 2
RECURSIVE SumForces(_, _, _, _, _)
SumForces(i, fs, exerted, m, p) ==
    IF i > Len(fs) THEN Zero3
    ELSE LET t == exerted[i]
         IN  add3(scaled3(fs[i].direction,
                          Acceleration(fs[i], m)
                          * (IF p = 2 THEN t * t ELSE t)),
                  SumForces(i + 1, fs, exerted, m, p))

\* C8: after simulate(dt), dt > 0, the position is p0 + v0 * dt/1000 + the sum
\* over the forces of (1/2) * a_i * t_i^2, v0 being the velocity held at the
\* start of the step and t_i the time force i was exerted for in the step.
C8_DriftThenKick ==
    [][IsStep(call') =>
           position' =
               add3(add3(position, scaled3(velocity, 2 * call'.dt)),
                    SumForces(1, forces, call'.exertedForces, mass, 2))]_vars

\* the second step drifted with the velocity the first had left and exerted a
\* force
C8_Witness ==
    /\ IsStep(call)
    /\ simulated = 2
    /\ velocity \notin VelocityMatrices
    /\ \E i \in 1..Len(forces) :
           call.exertedForces[i] > 0 /\ call.exertedForces[i] < call.dt

\* C9, as claimed: after simulate(dt), dt > 0, the velocity is the velocity at
\* the start of the step plus the sum over the forces of a_i * t_i.
C9_VelocityIsSum ==
    [][IsStep(call') =>
           velocity' =
               add3(velocity,
                    SumForces(1, forces, call'.exertedForces, mass, 1))]_vars

\* 0.0001 m/s, in velocity units
VelocityEpsilon == OneMps \div 10000

\* x is the value v with what is closer than 0.0001 to 0, 1 or -1 snapped
Snapped(x, v) ==
    IF Abs(v) < VelocityEpsilon THEN x = 0
    ELSE IF Abs(v - OneMps) < VelocityEpsilon THEN x = OneMps
    ELSE IF Abs(v + OneMps) < VelocityEpsilon THEN x = -OneMps
    ELSE x = v

\* C9, amended: after simulate(dt), dt > 0, the velocity is the straightened
\* sum of the velocity at the start of the step and of a_i * t_i over the
\* forces: a component of the sum closer than 0.0001 to 0, 1 or -1 becomes
\* that value, every other component is the sum's.
C9_VelocityIsStraightenedSum ==
    [][IsStep(call') =>
           LET sum == add3(velocity,
                           SumForces(1, forces, call'.exertedForces, mass, 1))
           IN  \A k \in 1..3 : Snapped(velocity'[k], sum[k])]_vars

\* a step exerted a force on an object at rest and left it at rest: the
\* velocity gained was below 0.0001 m/s
C9_Witness ==
    /\ IsStep(call)
    /\ simulated = 1
    /\ velocity = Zero3
    /\ \E i \in 1..Len(forces) : call.exertedForces[i] > 0

\* the sum over the torques i..Len(ts), all about a unit axis along Z, of
\* strength / mass times the square of the time the torque was exerted for;
\* axis[3] is 1 for a torque about Z and -1 for one about -Z
RECURSIVE SumTorques(_, _, _, _)
SumTorques(i, ts, exerted, m) ==
    IF i > Len(ts) THEN 0
    ELSE ts[i].axis[3] * Acceleration(ts[i], m) * exerted[i] * exerted[i]
         + SumTorques(i + 1, ts, exerted, m)

\* the orientation after a step that applied the angular velocity n times
Turned(n, c) ==
    orientation + n * angularVelocity * (TicksPerSecond \div 100)
    + SumTorques(1, torques, c.exertedTorques, mass)

\* C10, as claimed: simulate(dt), dt > 0, composes the orientation with the
\* angular velocity once for every complete 5 ms contained in dt, so that
\* dt = 3 ms produces no angular drift.
C10_CompleteIntervals ==
    [][IsStep(call') =>
           orientation' = Turned(call'.dt \div (5 * TicksPerMs), call')]_vars

\* the number of i in 0, 5, 10, ... ms with i + 2 ms < dt
Applications(dt) ==
    IF dt > 2 * TicksPerMs
    THEN (dt - 2 * TicksPerMs - 1) \div (5 * TicksPerMs) + 1
    ELSE 0

\* C10, amended: simulate(dt), dt > 0, composes the orientation with the
\* angular velocity once for every i in 0, 5, 10, ... ms with i + 2 ms < dt:
\* not at all for dt <= 2 ms, once for 2 ms < dt <= 7 ms (dt = 3 ms produces
\* one application), twice for 7 ms < dt <= 12 ms, and so on.
C10_AngularDrift ==
    [][IsStep(call') =>
           /\ call'.drifts = Applications(call'.dt)
           /\ orientation' = Turned(Applications(call'.dt), call')]_vars

\* a step of 3 ms, in which no torque was exerted, turned a spinning object
C10_Witness ==
    /\ IsStep(call)
    /\ call.dt = 3 * TicksPerMs
    /\ call.drifts = 1
    /\ angularVelocity # 0
    /\ \A i \in 1..Len(torques) : call.exertedTorques[i] = 0

\* the step c exerted no torque
NoTorqueExerted(c) ==
    \A i \in 1..Len(c.exertedTorques) : c.exertedTorques[i] = 0

\* C11: simulate(dt) on an object none of whose torques is exerted in the
\* step, dt a positive multiple of 5 ms, advances the orientation by exactly
\* dt / 5 applications of the angular velocity (200 for dt = 1000 ms) and
\* leaves the angular velocity as it was.
C11_ZeroTorqueDrift ==
    [][(IsStep(call') /\ call'.dt % (5 * TicksPerMs) = 0
          /\ NoTorqueExerted(call')) =>
           /\ orientation' =
                  orientation + (call'.dt \div (5 * TicksPerMs))
                                * angularVelocity * (TicksPerSecond \div 100)
           /\ angularVelocity' = angularVelocity]_vars

\* a step of 1000 ms, in which no torque was exerted, applied the angular
\* velocity of a spinning object 200 times
C11_Witness ==
    /\ IsStep(call)
    /\ call.dt = TicksPerSecond
    /\ call.drifts = 200
    /\ angularVelocity # 0
    /\ orientation # 0
    /\ Len(torques) > 0
    /\ NoTorqueExerted(call)

\* the step c exerted no force
NoForceExerted(c) ==
    \A i \in 1..Len(c.exertedForces) : c.exertedForces[i] = 0

\* the position after a step of dt that started at pos with the velocity vel
\* and exerted no force
Coasted(pos, vel, dt) ==
    <<pos[1] + 2 * vel[1] * dt, pos[2] + 2 * vel[2] * dt,
      pos[3] + 2 * vel[3] * dt>>

\* C12, as claimed: simulate(dt), dt > 0, on an object none of whose forces
\* is exerted in the step moves the position by velocity * dt / 1000 and
\* leaves the velocity as it was.
C12_VelocityKept ==
    [][(IsStep(call') /\ NoForceExerted(call')) =>
           /\ position' = Coasted(position, velocity, call'.dt)
           /\ velocity' = velocity]_vars

\* C12, amended: simulate(dt), dt > 0, on an object none of whose forces is
\* exerted in the step moves the position by velocity * dt / 1000, velocity
\* being that at the start of the step, and leaves the velocity straightened:
\* a component closer than 0.0001 to 0, 1 or -1 becomes that value, every
\* other component is as it was.
C12_LinearDrift ==
    [][(IsStep(call') /\ NoForceExerted(call')) =>
           /\ position' = Coasted(position, velocity, call'.dt)
           /\ \A k \in 1..3 : Snapped(velocity'[k], velocity[k])]_vars

\* a step of 1000 ms, in which the one force was not exerted, displaced the
\* object by its velocity
C12_Witness ==
    /\ IsStep(call)
    /\ call.dt = TicksPerSecond
    /\ Len(forces) > 0
    /\ NoForceExerted(call)
    /\ simulated = 1
    /\ velocity = <<6, 0, 0>>
    /\ position = <<2 * 6 * TicksPerSecond, 0, 0>>

\* the point of the call c transformed by the inverse of the model matrix
\* built from the current position, orientation and scaling
RelativePos(c) ==
    mulVec4Mat4(Point(c.point),
                mul4TRS(inverseOfTranslation4(position),
                        inverseOfRotation4(orientation),
                        inverseOfScaling4(scaling)))

\* coordinate k of the point p is, in absolute value, above / at / below the
\* cached bounding radius
Exceeds(p, k) == 4 * p.v[k] * p.v[k] > bodySize * p.den * p.den

Reaches(p, k) == 4 * p.v[k] * p.v[k] = bodySize * p.den * p.den

Within(p, k) == 4 * p.v[k] * p.v[k] < bodySize * p.den * p.den

\* C13, as claimed: checkHit(point) returns false without calling checkHit on
\* any body exactly when all three coordinates of the transformed point
\* exceed the cached bounding radius in absolute value; in every other case
\* the bodies are tested.
C13_AllThreeExceed ==
    (call.op = "checkHit" /\ Len(bodies) > 0) =>
        IF \A k \in 1..3 : Exceeds(RelativePos(call), k)
        THEN call.checked = 0 /\ ~call.hit
        ELSE call.checked > 0

\* C13, amended: checkHit(point) returns false without calling checkHit on
\* any body exactly when at least one coordinate of the transformed point is,
\* in absolute value, equal to or above the cached bounding radius; in every
\* other case the bodies are tested.
C13_Precheck ==
    (call.op = "checkHit" /\ Len(bodies) > 0) =>
        IF \E k \in 1..3 : ~Within(RelativePos(call), k)
        THEN call.checked = 0 /\ ~call.hit
        ELSE call.checked > 0

\* checkHit tested no body for a point that has one coordinate equal to the
\* bounding radius and the other two below it
C13_Witness ==
    /\ call.op = "checkHit"
    /\ Len(bodies) > 0
    /\ call.checked = 0
    /\ Reaches(RelativePos(call), 1)
    /\ Within(RelativePos(call), 2)
    /\ Within(RelativePos(call), 3)
    /\ simulated > 0

\* the bodies are one body of half-dimensions (1, 1, 1) at the local origin
\* with identity orientation
IsUnitCube(bs) ==
    /\ Len(bs) = 1
    /\ bs[1].position = Zero3 /\ bs[1].orientation = 0
    /\ bs[1].width = 20 /\ bs[1].height = 20 /\ bs[1].depth = 20

\* the points at the distance 10 from p along one axis
TenAway(p) ==
    {add3(p, d) : d \in {<<100, 0, 0>>, <<-100, 0, 0>>, <<0, 100, 0>>,
                          <<0, -100, 0>>, <<0, 0, 100>>, <<0, 0, -100>>}}

\* C14: for an object with identity scaling and one body of half-dimensions
\* (1, 1, 1) at the local origin, wherever setPositionMatrix and simulate
\* have put it, checkHit of the current position returns true, and checkHit
\* of a point 10 away from it along one axis returns false without a single
\* Body.checkHit call.
C14_HitAtPosition ==
    (call.op = "checkHit" /\ IsUnitCube(bodies)
       /\ scaling = IdentityScaling) =>
        /\ call.point = position => call.hit
        /\ call.point \in TenAway(position) =>
               ~call.hit /\ call.checked = 0

\* checkHit of the position of the object returned true after a step had
\* moved it away from every position a setter passes
C14_Witness ==
    /\ call.op = "checkHit"
    /\ IsUnitCube(bodies)
    /\ scaling = IdentityScaling
    /\ simulated > 0
    /\ position \notin PositionMatrices
    /\ call.point = position
    /\ call.hit
    /\ call.checked = 1

\* the squares of twice the distances from the local origin to the corners
\* of the body b, which is at b.position with the orientation b.orientation
CornerDistances(b) ==
    {TwiceLengthSquared(b.position,
                        rotated(<<x * b.width, y * b.height, z * b.depth>>,
                                b.orientation)) :
         x \in {1, -1}, y \in {1, -1}, z \in {1, -1}}

\* C15: the cached bounding radius is at least the distance from the local
\* origin of the object to every corner of every body, whatever the
\* orientation the object was constructed with.
C15_NeverUnderEstimates ==
    \A i \in 1..Len(bodies) :
        \A distance \in CornerDistances(bodies[i]) : distance <= bodySize

\* the extent of the body b along the axes of the space it is placed in, b
\* being turned by quarter turns
Extent(b) ==
    LET e == rotated(<<b.width, b.height, b.depth>>, b.orientation)
    IN  <<Abs(e[1]), Abs(e[2]), Abs(e[3])>>

\* the point p of the space the body b is placed in lies in b, faces included
Inside(b, p) ==
    \A k \in 1..3 :
        2 * Abs(p.v[k] - p.den * b.position[k]) <= Extent(b)[k] * p.den

\* the bodies that hold the point p
Holding(p) == {i \in 1..Len(bodies) : Inside(bodies[i], p)}

\* C16: when the pre-check does not reject the point, checkHit calls
\* Body.checkHit on the bodies in list order up to and including the first
\* that holds the point and on no body after it; it returns true if a body
\* holds the point and false if none does.
C16_FirstHitStops ==
    (call.op = "checkHit"
       /\ \A k \in 1..3 : Within(RelativePos(call), k)) =>
        LET holding == Holding(RelativePos(call))
        IN  /\ call.hit = (holding # {})
            /\ call.checked = IF holding = {} THEN Len(bodies)
                              ELSE CHOOSE i \in holding :
                                       \A j \in holding : i <= j
            /\ \A i \in 1..call.checked :
                   bodies[i].modelMatrixInverse # <<>>

\* checkHit returned true after testing the first of two bodies that both
\* hold the point; the second has never been tested
C16_Witness ==
    /\ call.op = "checkHit"
    /\ Holding(RelativePos(call)) = {1, 2}
    /\ call.hit
    /\ call.checked = 1
    /\ bodies[2].modelMatrixInverse = <<>>
    /\ simulated > 0

\* position, orientation and dimensions of the body b
Shape(b) == <<b.position, b.orientation, b.width, b.height, b.depth>>

\* C17: Body.checkHit(point) returns true if and only if the point lies in
\* the box of the body's dimensions placed at the body's position with the
\* body's orientation, faces included; the call changes neither position,
\* orientation and dimensions of the body nor what checkHit returns for any
\* point afterwards.
C17_BodyCheckHit ==
    [][call'.op = "Body.checkHit" =>
           /\ call'.hit = Inside(bodies[call'.index], Point(call'.point))
           /\ \A i \in 1..Len(bodies) : Shape(bodies'[i]) = Shape(bodies[i])
           /\ \A p \in LocalProbes :
                  BodyCheckHit(bodies'[call'.index], Point(p))
                  = BodyCheckHit(bodies[call'.index], Point(p))]_vars

\* Body.checkHit returned true for a point on a face of a body that is turned
\* and away from the origin
C17_Witness ==
    /\ call.op = "Body.checkHit"
    /\ call.hit
    /\ bodies[call.index].orientation # 0
    /\ bodies[call.index].position # Zero3
    /\ \E k \in 1..3 :
           2 * Abs(call.point[k] - bodies[call.index].position[k])
           = Extent(bodies[call.index])[k]

\* the vector v has the length 1
UnitLength(v) == v[1] * v[1] + v[2] * v[2] + v[3] * v[3] = 1

\* C18: in every reachable state the spin axis of every torque has the length
\* 1, as the direction of every force has: it is normalized on construction
\* and on every renew, also on one made through addOrRenewTorque with an axis
\* that is not of unit length.
C18_AxisUnitLength ==
    /\ \A i \in 1..Len(torques) : UnitLength(torques[i].axis)
    /\ \A i \in 1..Len(forces) : UnitLength(forces[i].direction)

\* no duration of the list before is smaller than that of the same entry of
\* the list after
NoneIncreased(before, after) ==
    /\ Len(after) = Len(before)
    /\ \A i \in 1..Len(before) : after[i].duration <= before[i].duration

\* C19: simulate(dt), whatever dt, and getExertionDuration(dt), dt >= 0, leave
\* the stored duration of every force and torque as it was or smaller; a step
\* that increases one is an addOrRenewForce or addOrRenewTorque.
C19_DurationNonIncreasing ==
    [][/\ (call'.op = "simulate" \/ (IsExertionCall(call') /\ call'.dt >= 0))
           => (NoneIncreased(forces, forces')
               /\ NoneIncreased(torques, torques'))
       /\ ~(NoneIncreased(forces, forces') /\ NoneIncreased(torques, torques'))
           => call'.op \in {"addOrRenewForce", "addOrRenewTorque"}]_vars

\* a step has aged a force past its end and a torque that goes on
C19_Witness ==
    /\ IsStep(call)
    /\ Len(forces) = 1 /\ Len(torques) = 1
    /\ forces[1].duration < 0
    /\ torques[1].duration > 0
    /\ torques[1].duration < 5 * TicksPerMs

\* C20: for every force and torque, the exertion durations that
\* getExertionDuration has returned since the force or torque was created or
\* last renewed with the duration D >= 0 add up to D at most, and each value
\* returned for a dt > 0 is between 0 and dt.
C20_NoOvershoot ==
    /\ \A i \in 1..Len(forceExertion) :
           forceExertion[i].initial >= 0 =>
               forceExertion[i].total <= forceExertion[i].initial
    /\ \A i \in 1..Len(torqueExertion) :
           torqueExertion[i].initial >= 0 =>
               torqueExertion[i].total <= torqueExertion[i].initial
    /\ (IsExertionCall(call) /\ call.dt > 0) =>
           (0 <= call.ret /\ call.ret <= call.dt)
    /\ IsStep(call) =>
           /\ \A i \in 1..Len(call.exertedForces) :
                  0 <= call.exertedForces[i]
                  /\ call.exertedForces[i] <= call.dt
           /\ \A i \in 1..Len(call.exertedTorques) :
                  0 <= call.exertedTorques[i]
                  /\ call.exertedTorques[i] <= call.dt

\* a force has been exerted for the whole of its duration in more than one
\* call, the last of which returned less than the dt passed
C20_Witness ==
    /\ call.op = "Force.getExertionDuration"
    /\ call.ret > 0
    /\ call.ret < call.dt
    /\ forceExertion[call.index].total = forceExertion[call.index].initial
    /\ forceExertion[call.index].total > call.ret

\* C21: setPositionMatrix clears the cached inverse model matrix and leaves
\* the cached inverse rotation matrix as it is; setOrientationMatrix clears
\* both; neither changes velocity, angular velocity, forces, torques or the
\* bounding radius.
C21_SetterFrame ==
    [][/\ call'.op = "setPositionMatrix" =>
            /\ modelMatrixInverse' = <<>>
            /\ rotationMatrixInverse' = rotationMatrixInverse
            /\ UNCHANGED <<velocity, angularVelocity, forces, torques,
                           bodySize>>
       /\ call'.op = "setOrientationMatrix" =>
            /\ modelMatrixInverse' = <<>>
            /\ rotationMatrixInverse' = <<>>
            /\ UNCHANGED <<velocity, angularVelocity, forces, torques,
                           bodySize>>]_vars

\* setPositionMatrix was called on a moving object with a force, after a
\* step and a read of the inverses: the inverse rotation is still cached, the
\* inverse model matrix is not
C21_Witness ==
    /\ call.op = "setPositionMatrix"
    /\ simulated > 0
    /\ rotationMatrixInverse # <<>>
    /\ modelMatrixInverse = <<>>
    /\ Len(forces) > 0
    /\ velocity # Zero3

\* the sum over the torques i..Len(ts), all about a unit axis along Z, of
\* strength / mass times the time the torque was exerted for, in angular
\* velocity units; axis[3] is 1 for a torque about Z and -1 for one about -Z
RECURSIVE SumTorqueGains(_, _, _, _)
SumTorqueGains(i, ts, exerted, m) ==
    IF i > Len(ts) THEN 0
    ELSE ts[i].axis[3] * Acceleration(ts[i], m) * exerted[i]
         + SumTorqueGains(i + 1, ts, exerted, m)

AngularEpsilon == (2 * OneRadPer5Ms) \div 100000

\* every torque of the list holds an axis of unit length
UnitAxesStored == \A i \in 1..Len(torques) : UnitLength(torques[i].axis)

EntriesStay(before, after) ==
    /\ Len(after) >= Len(before)
    /\ \A i \in 1..Len(before) : after[i].id = before[i].id

\* the entries of the list that are expired are not exerted by the step that
\* returned rets and are in the list after as they were
ExpiredIdle(before, after, rets) ==
    \A i \in 1..Len(before) :
        before[i].duration <= 0 => (rets[i] = 0 /\ after[i] = before[i])

\* C23: no addForce, addTorque, addOrRenewForce, addOrRenewTorque, simulate
\* or checkHit removes an entry of the force or torque list: the lengths
\* never decrease and every entry stays in its place; an expired entry is
\* exerted for 0 by every step and stays as it is.
C23_NothingRemoved ==
    [][/\ EntriesStay(forces, forces')
       /\ EntriesStay(torques, torques')
       /\ IsStep(call') =>
            /\ ExpiredIdle(forces, forces', call'.exertedForces)
            /\ ExpiredIdle(torques, torques', call'.exertedTorques)]_vars

\* the second step found a force and a torque that the first had left
\* expired, in lists of two
C23_Witness ==
    /\ IsStep(call)
    /\ simulated = 2
    /\ Len(forces) = 2 /\ Len(torques) = 2
    /\ \E i \in 1..2 : forces[i].duration < 0 /\ call.exertedForces[i] = 0
    /\ \E i \in 1..2 : torques[i].duration < 0 /\ call.exertedTorques[i] = 0

\* the list after is the list before with one entry appended, which has the
\* id, the strength and the duration of the call c
Appended(before, after, c) ==
    /\ Len(after) = Len(before) + 1
    /\ SubSeq(after, 1, Len(before)) = before
    /\ after[Len(after)].id = c.id
    /\ after[Len(after)].strength = c.strength
    /\ after[Len(after)].duration = c.duration

\* C24: addForce (addTorque) appends the force (torque) given as the last
\* entry of the force (torque) list: the list is longer by exactly 1 and the
\* entries it had are kept in their order, also when one of them has the id
\* of the new entry.
C24_Appends ==
    [][/\ call'.op = "addForce" =>
            Appended(forces, forces', call') /\ torques' = torques
       /\ call'.op = "addTorque" =>
            Appended(torques, torques', call') /\ forces' = forces]_vars

\* addForce was called with the id and with another strength and duration
\* than the force in the list has
C24_Witness ==
    /\ call.op = "addForce"
    /\ Len(forces) = 2
    /\ forces[1].id = forces[2].id
    /\ forces[1].strength # forces[2].strength
    /\ forces[1].duration # forces[2].duration
    /\ forces[2].strength = call.strength
    /\ Len(torques) > 0

\* what can be read from the second object: its matrices and the fields of
\* the forces and torques in its lists
OtherObserved ==
    [other EXCEPT !.forces = Instances(@, forces),
                  !.torques = Instances(@, torques)]

\* what can be read from this object
Observed ==
    <<position, orientation, velocity, angularVelocity, forces, torques>>

\* C25: simulate on one of two objects that were built and driven through
\* the constructor, addForce, addTorque and simulate changes nothing that
\* can be read from the other object.
C25_NoSharedState ==
    [][/\ call'.op = "simulate" => OtherObserved' = OtherObserved
       /\ call'.op = "other.simulate" => Observed' = Observed]_vars

\* the lists hold the same bodies in the same order
SameBodies(before, after) ==
    /\ Len(after) = Len(before)
    /\ \A i \in 1..Len(before) : Shape(after[i]) = Shape(before[i])

\* C26: the mass, the scaling matrix, the list of bodies and the cached
\* bounding radius are fixed at construction: none of simulate,
\* setPositionMatrix, setOrientationMatrix, addForce, addTorque,
\* addOrRenewForce, addOrRenewTorque and checkHit changes any of them; the
\* bounding radius is not computed again.
C26_FixedAtConstruction ==
    [][/\ mass' = mass
       /\ scaling' = scaling
       /\ SameBodies(bodies, bodies')
       /\ bodySize' = bodySize]_vars

\* the orientation was set to another one than the object was constructed
\* with, for which _calculateBodySize would give another radius, on an
\* object that has forces and torques and was stepped and probed
C26_Witness ==
    /\ call.op = "setOrientationMatrix"
    /\ bodySize # calculateBodySize(1, bodies, orientation, 0)
    /\ Len(forces) = MaxForces
    /\ Len(torques) = MaxTorques
    /\ simulated > 0
    /\ \E i \in 1..Len(bodies) : bodies[i].modelMatrixInverse # <<>>

\* C27: in simulate(dt), dt > 0, every application of the angular velocity
\* uses the angular velocity matrix as it was at the start of the step: the
\* torques exerted in the step turn the orientation in this step through
\* their (1/2)*t^2 term only, and what they add to the angular velocity
\* produces drift from the next step on.
C27_DriftAtStartOfStep ==
    [][IsStep(call') /\ ~NoTorqueExerted(call') =>
           orientation' =
               orientation
               + call'.drifts * AngularStep(angularVelocity)
               + SumTorques(1, torques, call'.exertedTorques, mass)]_vars

\* the second step applied the angular velocity once and exerted a torque
\* for the whole step, which left the object spinning
C27_Witness ==
    /\ IsStep(call)
    /\ simulated = 2
    /\ call.drifts = 1
    /\ \E i \in 1..Len(torques) : call.exertedTorques[i] = call.dt
    /\ angularVelocity # 0
    /\ orientation # 0

\* C28: the pre-check against the bounding radius never changes what
\* checkHit returns: it returns true if and only if checkHit of at least one
\* body returns true for the point transformed by the inverse model matrix,
\* the points on the faces, edges and corners of a body included.
C28_PrecheckNeutral ==
    call.op = "checkHit" =>
        (call.hit <=>
            \E i \in 1..Len(bodies) :
                BodyCheckHit(bodies[i], RelativePos(call)))

\* C29: when addOrRenewForce(id, S, D, T) with T >= dt and T > 0.1 ms is
\* called before simulate(dt), dt > 0, the step exerts the force with that id
\* for the whole dt, and the force list of an object driven in this way holds
\* exactly one entry with the id, before and after the step.
C29_ContinuousThrust ==
    [][(/\ call.op = "addOrRenewForce"
        /\ IsStep(call')
        /\ call.duration >= call'.dt
        /\ call.duration > Epsilon) =>
           /\ Cardinality(Matching(forces, call.id)) = 1
           /\ Matching(forces', call.id) = Matching(forces, call.id)
           /\ \A i \in Matching(forces, call.id) :
                  call'.exertedForces[i] = call'.dt]_vars

\* the second step exerted, for all of its 3 ms, a force of 5 ms that was
\* there in the first step: it was renewed in between
C29_Witness ==
    /\ IsStep(call)
    /\ simulated = 2
    /\ \E i \in 1..Len(forces) :
           /\ call.exertedForces[i] = call.dt
           /\ forces[i].duration = 2 * TicksPerMs
           /\ forceExertion[i].total = call.dt
    /\ velocity # Zero3

====
